---- MODULE Spec2Model ----
\* Verification model of rustban's PipeWire reconciliation engine
\* (src/system.rs) and of the list edits that feed it (src/src/main.rs).
EXTENDS Integers, Sequences, FiniteSets, TLC

\* ------------------------------------------------------------------ bounds
MaxSends == 2
MaxRecvs == 1
MaxSourcePorts == 2
MaxSendPorts == 2
MaxCalls == 3

MaxEntries == 2

\* Uuid values: as many as the list can hold entities.
SendIds == 1..MaxSends

RecvIds == 1..MaxRecvs

\* ------------------------------------------------------------ file names
\* A file name is a sequence of tokens; the tokens are the pieces the code
\* tests with starts_with / ends_with.
starts_with(name, prefix) == Len(name) >= 1 /\ name[1] = prefix

ends_with(name, suffix) == Len(name) >= 1 /\ name[Len(name)] = suffix

\* Variant: only the send prefix is recognised.
is_rustban_fragment_send_only(name) ==
  starts_with(name, "99-rustban-send-") /\ ends_with(name, ".conf")

\* Variant: the suffix is not tested.
is_rustban_fragment_any_suffix(name) ==
  starts_with(name, "99-rustban-send-") \/ starts_with(name, "99-rustban-recv-")

is_rustban_fragment(name) ==
  LET is_send == starts_with(name, "99-rustban-send-")
      is_recv == starts_with(name, "99-rustban-recv-")
  IN (is_send \/ is_recv) /\ ends_with(name, ".conf")

filename_send(id) == <<"99-rustban-send-", id, ".conf">>

filename_recv(id) == <<"99-rustban-recv-", id, ".conf">>

render_send(send, hie) == <<"send", send, hie>>

render_recv(recv, hie) == <<"recv", recv, hie>>

\* Names the directory may hold besides fragments: an unrelated file, and a
\* file with the engine's prefix but not its suffix.
CustomConf == <<"custom", ".conf">>

BackupName == <<"99-rustban-send-", 1, ".conf", ".bak">>

OtherNames == {CustomConf, BackupName}

FragmentNames == {filename_send(id) : id \in SendIds} \cup {filename_recv(id) : id \in RecvIds}

DirNames == FragmentNames \cup OtherNames

\* --------------------------------------------------------- the file system
Absent == [kind |-> "absent"]

Directory == [kind |-> "dir"]

File(content) == [kind |-> "file", content |-> content]

\* Path::exists
path_exists(d, name) == d[name].kind # "absent"

\* Path::is_file
path_is_file(d, name) == d[name].kind = "file"

\* fs::write: create or truncate, then write the body. The set of outcomes:
\* success, or (when I/O may fail, or the path is a directory) an error that
\* leaves the entry as it was or leaves a truncated file behind.
fs_write(d, name, body, io) ==
  (IF d[name].kind = "dir"
   THEN {[ok |-> FALSE, dir |-> d]}
   ELSE {[ok |-> TRUE, dir |-> [d EXCEPT ![name] = File(body)]]})
  \cup
  (IF io /\ d[name].kind # "dir"
   THEN {[ok |-> FALSE, dir |-> d],
         [ok |-> FALSE, dir |-> [d EXCEPT ![name] = File(<<"truncated">>)]]}
   ELSE {})

\* fs::remove_file: fails on a missing path and on a directory.
fs_remove_file(d, name, io) ==
  (IF d[name].kind = "file"
   THEN {[ok |-> TRUE, dir |-> [d EXCEPT ![name] = Absent]]}
   ELSE {[ok |-> FALSE, dir |-> d]})
  \cup
  (IF io THEN {[ok |-> FALSE, dir |-> d]} ELSE {})

\* fs::read_dir: the names present when the directory is listed.
read_dir(d) == {n \in DOMAIN d : d[n].kind # "absent"}

\* ----------------------------------------------------------------- state
VARIABLES
  cfg,      \* App.cfg: [sends, recvs, host_info_emulation]
  dir,      \* the drop-in directory: name -> entry
  pass,     \* per pass (process): position in apply_pipewire_fragments
  status,   \* outcome of the last whole pass since the last edit
  repeated, \* the last pass directly followed a successful pass
  dir0,     \* SpecConc: the directory before the two passes
  source_ports, send_ports,   \* plan_autolinks: its two port lists
  plan_pc, planned_links,     \* plan_autolinks: called yet, its result
  links, calls,                              \* media server links, ensure_pw_link log
  server,   \* what the media server lists: its nodes and its ports
  auto,     \* autolink_send_sources: its last call and what it returned
  mic,      \* list_microphone_sources: its call and what it returned
  app       \* App: its status line, the configuration file, the last handler

fragVars == <<cfg, dir, pass, status, repeated, dir0>>

planVars == <<source_ports, send_ports, plan_pc, planned_links>>

linkVars == <<links, calls>>

autoVars == <<server, auto, mic, app>>

vars == <<cfg, dir, pass, status, repeated, dir0, source_ports, send_ports,
          plan_pc, planned_links, links, calls, server, auto, mic, app>>

\* -------------------------------------------- apply_pipewire_fragments
\* Variant: the recvs are processed before the sends.
Entities_recvs_first(c) ==
  [i \in 1..Len(c.recvs) |->
     [file_name |-> <<"99-rustban-recv-", c.recvs[i].id, ".conf">>,
      enabled |-> c.recvs[i].enabled,
      body |-> <<"recv", c.recvs[i], c.host_info_emulation>>]]
  \o
  [i \in 1..Len(c.sends) |->
     [file_name |-> <<"99-rustban-send-", c.sends[i].id, ".conf">>,
      enabled |-> c.sends[i].enabled,
      body |-> <<"send", c.sends[i], c.host_info_emulation>>]]

\* The two loops of apply_pipewire_fragments run over the sends, then the
\* recvs: the entities in processing order, each with its file name, its
\* enabled flag and its rendered body.
Entities(c) ==
  [i \in 1..Len(c.sends) |->
     [file_name |-> filename_send(c.sends[i].id),
      enabled |-> c.sends[i].enabled,
      body |-> render_send(c.sends[i], c.host_info_emulation)]]
  \o
  [i \in 1..Len(c.recvs) |->
     [file_name |-> filename_recv(c.recvs[i].id),
      enabled |-> c.recvs[i].enabled,
      body |-> render_recv(c.recvs[i], c.host_info_emulation)]]

Idle == [pc |-> "idle", i |-> 0, keep |-> {}, todo |-> {}, cur |-> <<>>]

Started == [Idle EXCEPT !.pc = "create_dir"]

\* What a pass returns: Ok(()), or the error of the operation that failed.
Errors == {"err:create_dir_all", "err:write", "err:remove_file", "err:read_dir"}

Results == {"ok"} \cup Errors

Finished(result) == [Idle EXCEPT !.pc = result]

\* Variant: the error of the operation is dropped and the pass goes on.
Try_go_on(ok, next, err) == next

\* The `?` operator: go on when the operation succeeded, return its error
\* otherwise.
Try(ok, next, err) == IF ok THEN next ELSE Finished(err)

\* After the entity at index l.i: the next entity, or the sweep.
NextEntity(l, ents) ==
  IF l.i < Len(ents)
  THEN [l EXCEPT !.pc = "entity", !.i = l.i + 1]
  ELSE [l EXCEPT !.pc = "read_dir"]

\* Variant: the sweep returns after the first stray fragment it removed.
AfterSweepRemove_return(l) == Finished("ok")

\* cleanup_removed_entries, after a stray fragment was removed: the loop
\* goes on with the next directory entry.
AfterSweepRemove(l) == [l EXCEPT !.pc = "sweep", !.cur = <<>>]

\* Variant: the keep set is not consulted.
SweepSkips_no_keep(l, d, n) == ~is_rustban_fragment(n) \/ ~path_is_file(d, n)

\* cleanup_removed_entries, the three `continue`s of the loop body: the entry
\* is left alone.
SweepSkips(l, d, n) == ~is_rustban_fragment(n) \/ n \in l.keep \/ ~path_is_file(d, n)

\* One file-system step of a pass: the set of <<pass state, directory>> pairs
\* it can lead to. io: whether an operation may fail for a reason outside the
\* directory's content (permissions, disk full, I/O error).
PassStep(l, d, ents, io) ==
  CASE l.pc = "create_dir" ->
         {<<NextEntity(l, ents), d>>}
         \cup (IF io THEN {<<Finished("err:create_dir_all"), d>>} ELSE {})
    [] l.pc = "entity" ->
         LET e == ents[l.i]
             k == [l EXCEPT !.keep = l.keep \cup {e.file_name}]
         IN IF e.enabled
            THEN {<<Try(r.ok, NextEntity(k, ents), "err:write"), r.dir>> :
                    r \in fs_write(d, e.file_name, e.body, io)}
            ELSE IF path_exists(d, e.file_name)
                 THEN {<<[k EXCEPT !.pc = "remove_disabled"], d>>}
                 ELSE {<<NextEntity(k, ents), d>>}
    [] l.pc = "remove_disabled" ->
         {<<Try(r.ok, NextEntity(l, ents), "err:remove_file"), r.dir>> :
            r \in fs_remove_file(d, ents[l.i].file_name, io)}
    [] l.pc = "read_dir" ->
         {<<[l EXCEPT !.pc = "sweep", !.todo = read_dir(d)], d>>}
         \cup (IF io THEN {<<Finished("err:read_dir"), d>>} ELSE {})
    [] l.pc = "sweep" ->
         IF l.todo = {}
         THEN {<<Finished("ok"), d>>}
         ELSE {<<IF SweepSkips(l, d, n)
                 THEN [l EXCEPT !.todo = l.todo \ {n}]
                 ELSE [l EXCEPT !.pc = "sweep_remove", !.todo = l.todo \ {n}, !.cur = n],
                 d>> : n \in l.todo}
              \cup (IF io THEN {<<Finished("err:read_dir"), d>>} ELSE {})
    [] l.pc = "sweep_remove" ->
         {<<Try(r.ok, AfterSweepRemove(l), "err:remove_file"), r.dir>> :
            r \in fs_remove_file(d, l.cur, io)}
    [] OTHER -> {}

\* A whole pass run alone from <<l, d>>: the set of <<result, directory>> it
\* can end with.
RECURSIVE PassOutcomes(_, _, _, _)
PassOutcomes(l, d, ents, io) ==
  IF l.pc \in Results
  THEN {<<l.pc, d>>}
  ELSE UNION {PassOutcomes(s[1], s[2], ents, io) : s \in PassStep(l, d, ents, io)}

apply_pipewire_fragments(c, d, io) == PassOutcomes(Started, d, Entities(c), io)

\* ------------------------------------------------------- the declared list
VbanSend(id) == [id |-> id, enabled |-> TRUE]

VbanRecv(id) == [id |-> id, enabled |-> TRUE]

Remove(s, i) == [j \in 1..(Len(s) - 1) |-> IF j < i THEN s[j] ELSE s[j + 1]]

Ids(s) == {s[i].id : i \in 1..Len(s)}

Passes == {1, 2}

InitialEntries(n) ==
  IF n \in FragmentNames THEN {Absent, Directory, File(<<"old">>)} ELSE {Absent, File(<<"old">>)}

InitFrag ==
  /\ dir \in {d \in [DirNames -> {Absent, Directory, File(<<"old">>)}] :
                \A n \in DirNames : d[n] \in InitialEntries(n)}
  /\ pass = [p \in Passes |-> Idle]
  /\ status = "none"
  /\ repeated = FALSE

Edited(c) ==
  /\ \A p \in DOMAIN pass : pass[p].pc = "idle"
  /\ cfg' = c
  /\ status' = "edited"
  /\ repeated' = FALSE
  /\ UNCHANGED <<dir, pass, dir0>>

\* "+ Add send": a default send with a fresh id is appended.
AddSend ==
  /\ Len(cfg.sends) < MaxSends
  /\ \E id \in SendIds \ Ids(cfg.sends) :
       Edited([cfg EXCEPT !.sends = Append(@, VbanSend(id))])

\* The enabled checkbox of a send card.
ToggleSend ==
  \E i \in 1..Len(cfg.sends) :
    Edited([cfg EXCEPT !.sends[i].enabled = ~@])

\* The remove button of a send card.
RemoveSend ==
  \E i \in 1..Len(cfg.sends) :
    Edited([cfg EXCEPT !.sends = Remove(@, i)])

AddRecv ==
  /\ Len(cfg.recvs) < MaxRecvs
  /\ \E id \in RecvIds \ Ids(cfg.recvs) :
       Edited([cfg EXCEPT !.recvs = Append(@, VbanRecv(id))])

ToggleRecv ==
  \E i \in 1..Len(cfg.recvs) :
    Edited([cfg EXCEPT !.recvs[i].enabled = ~@])

RemoveRecv ==
  \E i \in 1..Len(cfg.recvs) :
    Edited([cfg EXCEPT !.recvs = Remove(@, i)])

\* One call of apply_pipewire_fragments, run alone, any I/O operation of
\* which may fail.
Apply ==
  /\ \A p \in DOMAIN pass : pass[p].pc = "idle"
  /\ \E o \in apply_pipewire_fragments(cfg, dir, TRUE) :
       /\ status' = o[1]
       /\ dir' = o[2]
  /\ repeated' = (status = "ok")
  /\ UNCHANGED <<cfg, pass, dir0>>

Init ==
  /\ cfg \in [sends : {<<>>}, recvs : {<<>>}, host_info_emulation : BOOLEAN]
  /\ InitFrag
  /\ dir0 = <<>>
  /\ source_ports = <<>>
  /\ send_ports = <<>>
  /\ plan_pc = "input"
  /\ planned_links = <<>>
  /\ links = {}
  /\ calls = <<>>
  /\ server = <<>>
  /\ auto = <<>>
  /\ mic = <<>>
  /\ app = <<>>

Next ==
  \/ AddSend /\ UNCHANGED <<planVars, linkVars, autoVars>>
  \/ ToggleSend /\ UNCHANGED <<planVars, linkVars, autoVars>>
  \/ RemoveSend /\ UNCHANGED <<planVars, linkVars, autoVars>>
  \/ AddRecv /\ UNCHANGED <<planVars, linkVars, autoVars>>
  \/ ToggleRecv /\ UNCHANGED <<planVars, linkVars, autoVars>>
  \/ RemoveRecv /\ UNCHANGED <<planVars, linkVars, autoVars>>
  \/ Apply /\ UNCHANGED <<planVars, linkVars, autoVars>>

Spec == Init /\ [][Next]_vars

\* ------------------------------------------ two passes at the same time
\* Two callers run apply_pipewire_fragments on the same directory with the
\* same declared list; their file-system operations interleave. No
\* operation fails for a reason outside the directory's content.
BoundedSeqs(S, n) == UNION {[1..k -> S] : k \in 0..n}

UniqueIds(s) == \A i, j \in 1..Len(s) : s[i].id = s[j].id => i = j

Configs ==
  {c \in [sends : BoundedSeqs([id : SendIds, enabled : BOOLEAN], MaxSends),
           recvs : BoundedSeqs([id : RecvIds, enabled : BOOLEAN], MaxRecvs),
           host_info_emulation : BOOLEAN] :
     UniqueIds(c.sends) /\ UniqueIds(c.recvs)}

InitConc ==
  /\ cfg \in Configs
  /\ InitFrag
  /\ dir0 = dir
  /\ source_ports = <<>>
  /\ send_ports = <<>>
  /\ plan_pc = "input"
  /\ planned_links = <<>>
  /\ links = {}
  /\ calls = <<>>
  /\ server = <<>>
  /\ auto = <<>>
  /\ mic = <<>>
  /\ app = <<>>

StartPass(p) ==
  /\ pass[p].pc = "idle"
  /\ pass' = [pass EXCEPT ![p] = Started]
  /\ UNCHANGED <<cfg, dir, status, repeated, dir0>>

StepPass(p) ==
  /\ \E s \in PassStep(pass[p], dir, Entities(cfg), FALSE) :
       /\ pass' = [pass EXCEPT ![p] = s[1]]
       /\ dir' = s[2]
  /\ UNCHANGED <<cfg, status, repeated, dir0>>

NextConc ==
  \/ \E p \in Passes : StartPass(p) /\ UNCHANGED <<planVars, linkVars, autoVars>>
  \/ \E p \in Passes : StepPass(p) /\ UNCHANGED <<planVars, linkVars, autoVars>>

SpecConc == InitConc /\ [][NextConc]_vars

\* ------------------------------------------------------------ strings
\* A string is the sequence of its bytes; Option<T> is <<>> (None) or <<v>>.
None == <<>>

Some(v) == <<v>>

\* u8::to_ascii_lowercase
to_ascii_lowercase(b) == IF b \in 65..90 THEN b + 32 ELSE b

\* str::eq_ignore_ascii_case
eq_ignore_ascii_case(a, b) ==
  /\ Len(a) = Len(b)
  /\ \A i \in 1..Len(a) : to_ascii_lowercase(a[i]) = to_ascii_lowercase(b[i])

\* Ord for str: byte-wise lexicographic order.
StrLess(a, b) ==
  \E k \in 1..(Len(b)) :
    /\ k <= Len(a) + 1
    /\ \A i \in 1..(k - 1) : a[i] = b[i]
    /\ (k = Len(a) + 1 \/ a[k] < b[k])

\* Ord for (String, String).
PairLess(x, y) == StrLess(x[1], y[1]) \/ (x[1] = y[1] /\ StrLess(x[2], y[2]))

\* Channel tags and port names used as inputs.
FL == <<70, 76>>

FL_lower == <<102, 108>>

FR == <<70, 82>>

MONO == <<77, 79, 78, 79>>

MONO_lower == <<109, 111, 110, 111>>

AUX == <<65, 85, 88>>

Channels == {None, Some(FL), Some(FL_lower), Some(FR), Some(MONO), Some(MONO_lower), Some(AUX)}

PortNames == {<<97>>, <<97, 98>>}

\* ------------------------------------------------------- plan_autolinks
\* Variant: the tags are compared byte for byte.
channels_match_case_sensitive(left, right) ==
  left # None /\ right # None /\ left[1] = right[1]

channels_match(left, right) ==
  left # None /\ right # None /\ eq_ignore_ascii_case(left[1], right[1])

\* Iterator::find over the source ports: the first port whose channel
\* matches `channel`, as an Option.
Find(sources, channel) ==
  LET hits == {i \in 1..Len(sources) : channels_match(sources[i].channel, channel)}
  IN IF hits = {} THEN None
     ELSE Some(sources[CHOOSE i \in hits : \A j \in hits : i <= j])

\* Variant: no target channel counts as a stereo position.
is_stereo_position_never(target_channel) == FALSE

\* Variant: every target channel counts as a stereo position.
is_stereo_position_always(target_channel) == TRUE

\* The condition of the MONO fallback: the target channel is FL or FR.
is_stereo_position(target_channel) ==
  eq_ignore_ascii_case(target_channel, FL) \/ eq_ignore_ascii_case(target_channel, FR)

\* Variant: no source port is taken when no rule applies.
source_ports_first_none(sources) == None

\* source_ports.first().copied()
source_ports_first(sources) == IF sources = <<>> THEN None ELSE Some(sources[1])

pick_source_port_for_send(sources, send_port) ==
  LET target_channel == IF send_port.channel = None THEN <<>> ELSE send_port.channel[1]
      exact == Find(sources, Some(target_channel))
      mono == Find(sources, Some(MONO))
  IN IF target_channel # <<>>
     THEN IF exact # None THEN exact
          ELSE IF is_stereo_position(target_channel) /\ mono # None
               THEN mono
               ELSE source_ports_first(sources)
     ELSE source_ports_first(sources)

\* The loop of plan_autolinks: one link per send port for which a source
\* port was picked, in send-port order.
RECURSIVE PushLinks(_, _, _)
PushLinks(sources, sends, j) ==
  IF j > Len(sends) THEN <<>>
  ELSE LET picked == pick_source_port_for_send(sources, sends[j])
       IN (IF picked = None THEN <<>>
           ELSE <<(<<picked[1].port_name, sends[j].port_name>>)>>)
          \o PushLinks(sources, sends, j + 1)

\* Vec::sort on pairs of strings (insertion into a sorted prefix).
RECURSIVE Insert(_, _)
Insert(x, sorted) ==
  IF sorted = <<>> THEN <<x>>
  ELSE IF PairLess(x, Head(sorted)) THEN <<x>> \o sorted
       ELSE <<Head(sorted)>> \o Insert(x, Tail(sorted))

RECURSIVE Sort(_)
Sort(v) == IF v = <<>> THEN <<>> ELSE Insert(Head(v), Sort(Tail(v)))

\* Vec::dedup: consecutive equal elements collapse into the first.
RECURSIVE Dedup(_)
Dedup(v) ==
  IF Len(v) <= 1 THEN v
  ELSE IF v[1] = v[2] THEN Dedup(Tail(v))
       ELSE <<v[1]>> \o Dedup(Tail(v))

\* Variant: the list is sorted but not deduplicated.
plan_autolinks_no_dedup(sources, sends) == Sort(PushLinks(sources, sends, 1))

plan_autolinks(sources, sends) == Dedup(Sort(PushLinks(sources, sends, 1)))

Ports(is_input) == [port_name : PortNames, is_input : {is_input}, channel : Channels]

InitPlan ==
  /\ source_ports \in BoundedSeqs(Ports(FALSE), MaxSourcePorts)
  /\ send_ports \in BoundedSeqs(Ports(TRUE), MaxSendPorts)
  /\ plan_pc = "input"
  /\ planned_links = <<>>
  /\ cfg = [sends |-> <<>>, recvs |-> <<>>, host_info_emulation |-> FALSE]
  /\ dir = <<>>
  /\ pass = <<>>
  /\ status = "none"
  /\ repeated = FALSE
  /\ dir0 = <<>>
  /\ links = {}
  /\ calls = <<>>
  /\ server = <<>>
  /\ auto = <<>>
  /\ mic = <<>>
  /\ app = <<>>

PlanAutolinks ==
  /\ plan_pc = "input"
  /\ planned_links' = plan_autolinks(source_ports, send_ports)
  /\ plan_pc' = "planned"
  /\ UNCHANGED <<source_ports, send_ports>>

NextPlan == PlanAutolinks /\ UNCHANGED <<fragVars, linkVars, autoVars>>

SpecPlan == InitPlan /\ [][NextPlan]_vars

\* -------------------------------------------------------- ensure_pw_link
\* str::to_ascii_lowercase
str_to_ascii_lowercase(str) == [i \in 1..Len(str) |-> to_ascii_lowercase(str[i])]

\* str::contains
contains(str, pat) ==
  \E k \in 0..(Len(str) - Len(pat)) : \A i \in 1..Len(pat) : str[k + i] = pat[i]

\* format!("{node}:{port}")
NodePort(node, port) == node \o <<58>> \o port

\* "file exists", "already linked", "already exists"
FileExists == <<102, 105, 108, 101, 32, 101, 120, 105, 115, 116, 115>>

AlreadyLinked == <<97, 108, 114, 101, 97, 100, 121, 32, 108, 105, 110, 107, 101, 100>>

AlreadyExists == <<97, 108, 114, 101, 97, 100, 121, 32, 101, 120, 105, 115, 116, 115>>

\* Variant: the diagnostic is searched as written, not lower-cased.
ReportsExistingLink_as_written(stderr) ==
  \/ contains(stderr, FileExists)
  \/ contains(stderr, AlreadyLinked)
  \/ contains(stderr, AlreadyExists)

\* The test of ensure_pw_link on the diagnostic of a failed pw-link.
ReportsExistingLink(stderr) ==
  LET stderr_lower == str_to_ascii_lowercase(stderr)
  IN \/ contains(stderr_lower, FileExists)
     \/ contains(stderr_lower, AlreadyLinked)
     \/ contains(stderr_lower, AlreadyExists)

Ok(v) == [ok |-> TRUE, value |-> v]

Err(msg) == [ok |-> FALSE, value |-> msg]

\* ensure_pw_link on the output of the pw-link command it ran.
ensure_pw_link(output) ==
  IF output.success THEN Ok(TRUE)
  ELSE IF ReportsExistingLink(output.stderr) THEN Ok(FALSE)
       ELSE Err(output.stderr)

\* The media server. Its ports, and the diagnostics of pw-link:
\* "failed to link ports: File exists", "ports ALREADY LINKED",
\* "Link Already Exists"; "failed to link ports: No such file or directory".
ServerPorts ==
  {NodePort(<<109>>, <<111, 49>>), NodePort(<<109>>, <<111, 50>>), NodePort(<<115>>, <<105, 49>>),
   NodePort(<<116>>, <<105, 49>>)}

ExistsDiagnostics ==
  {<<102, 97, 105, 108, 101, 100, 32, 116, 111, 32, 108, 105, 110, 107, 32, 112, 111, 114,
     116, 115, 58, 32, 70, 105, 108, 101, 32, 101, 120, 105, 115, 116, 115>>,
   <<112, 111, 114, 116, 115, 32, 65, 76, 82, 69, 65, 68, 89, 32, 76, 73, 78, 75, 69, 68>>,
   <<76, 105, 110, 107, 32, 65, 108, 114, 101, 97, 100, 121, 32, 69, 120, 105, 115, 116, 115>>}

NoSuchPort ==
  <<102, 97, 105, 108, 101, 100, 32, 116, 111, 32, 108, 105, 110, 107, 32, 112, 111, 114,
    116, 115, 58, 32, 78, 111, 32, 115, 117, 99, 104, 32, 102, 105, 108, 101, 32, 111, 114,
    32, 100, 105, 114, 101, 99, 116, 111, 114, 121>>

\* `pw-link source target` against the link set ls: the outputs it can give,
\* each with the link set it leaves.
pw_link(ls, source, target) ==
  IF source \notin ServerPorts \/ target \notin ServerPorts
  THEN {[success |-> FALSE, stderr |-> NoSuchPort, links |-> ls]}
  ELSE IF <<source, target>> \in ls
       THEN {[success |-> FALSE, stderr |-> e, links |-> ls] : e \in ExistsDiagnostics}
       ELSE {[success |-> TRUE, stderr |-> <<>>, links |-> ls \cup {<<source, target>>}]}

\* The node and port names ensure_pw_link is called with.
SourceNodes == {<<109>>}

SourcePortNames == {<<111, 49>>, <<111, 50>>}

SendNodes == {<<115>>}

SendPortNames == {<<105, 49>>, <<105, 57>>}

InitLink ==
  /\ links = {}
  /\ calls = <<>>
  /\ source_ports = <<>>
  /\ send_ports = <<>>
  /\ plan_pc = "input"
  /\ planned_links = <<>>
  /\ cfg = [sends |-> <<>>, recvs |-> <<>>, host_info_emulation |-> FALSE]
  /\ dir = <<>>
  /\ pass = <<>>
  /\ status = "none"
  /\ repeated = FALSE
  /\ dir0 = <<>>
  /\ server = <<>>
  /\ auto = <<>>
  /\ mic = <<>>
  /\ app = <<>>

\* One call of ensure_pw_link; the call is logged with its result.
EnsureLink ==
  /\ Len(calls) < MaxCalls
  /\ \E sn \in SourceNodes, sp \in SourcePortNames, tn \in SendNodes, tp \in SendPortNames :
       LET source == NodePort(sn, sp)
           target == NodePort(tn, tp)
       IN \E output \in pw_link(links, source, target) :
            /\ links' = output.links
            /\ calls' = Append(calls, [source |-> source,
                                        target |-> target,
                                        existed |-> <<source, target>> \in links,
                                        stderr |-> output.stderr,
                                        result |-> ensure_pw_link(output)])

NextLink == EnsureLink /\ UNCHANGED <<fragVars, planVars, autoVars>>

SpecLink == InitLink /\ [][NextLink]_vars

\* ------------------------------------------------ load_pipewire_topology
WhiteSpace == {9, 10, 13, 32}

RECURSIVE trim_start(_)
trim_start(str) ==
  IF str # <<>> /\ Head(str) \in WhiteSpace THEN trim_start(Tail(str)) ELSE str

RECURSIVE trim_end(_)
trim_end(str) ==
  IF str # <<>> /\ str[Len(str)] \in WhiteSpace
  THEN trim_end(SubSeq(str, 1, Len(str) - 1))
  ELSE str

\* str::trim
trim(str) == trim_end(trim_start(str))

\* HashMap::insert: a later value for the same key replaces the earlier one.
MapInsert(map, key, value) ==
  [k \in DOMAIN map \cup {key} |-> IF k = key THEN value ELSE map[k]]

\* ports_by_node.entry(node_id).or_default().push(port)
MapPush(map, key, value) ==
  [k \in DOMAIN map \cup {key} |->
     IF k = key
     THEN Append(IF key \in DOMAIN map THEN map[key] ELSE <<>>, value)
     ELSE map[k]]

EmptyMap == [k \in {} |-> <<>>]

\* The node loop: an entry without an id or without a name that is
\* non-empty after trimming is skipped.
RECURSIVE NodesByName(_, _, _)
NodesByName(entries, i, nodes_by_name) ==
  IF i > Len(entries) THEN nodes_by_name
  ELSE LET entry == entries[i]
       IN IF entry.id = None \/ entry.node_name = None
             \/ trim(entry.node_name[1]) = <<>>
          THEN NodesByName(entries, i + 1, nodes_by_name)
          ELSE NodesByName(entries, i + 1,
                 MapInsert(nodes_by_name, trim(entry.node_name[1]), entry.id[1]))

\* The channel of a port: absent, or empty after trimming, is None.
PortChannel(entry) ==
  IF entry.channel = None \/ trim(entry.channel[1]) = <<>>
  THEN None
  ELSE Some(trim(entry.channel[1]))

\* The port loop: an entry without a node id, name or known direction is
\* skipped; the others are pushed in the order of the dump.
RECURSIVE PortsByNode(_, _, _)
PortsByNode(entries, i, ports_by_node) ==
  IF i > Len(entries) THEN ports_by_node
  ELSE LET entry == entries[i]
       IN IF entry.node_id = None \/ entry.port_name = None
             \/ trim(entry.port_name[1]) = <<>>
             \/ entry.direction \notin {"input", "output"}
          THEN PortsByNode(entries, i + 1, ports_by_node)
          ELSE PortsByNode(entries, i + 1,
                 MapPush(ports_by_node, entry.node_id[1],
                   [port_name |-> trim(entry.port_name[1]),
                    is_input |-> entry.direction = "input",
                    channel |-> PortChannel(entry)]))

\* What a run of `pw-dump Node` or `pw-dump Port` can give: the command
\* cannot be executed, it exits non-zero, its output is not JSON, or its
\* output is the array of entries.
QueryFailures == {"exec_failed", "exit_nonzero", "unparseable"}

Query(entries) ==
  {[kind |-> k, entries |-> <<>>] : k \in QueryFailures}
  \cup {[kind |-> "ok", entries |-> entries]}

\* load_pipewire_topology on the outcomes of its two queries. The port
\* query is only run after the node query has succeeded and been read.
load_pipewire_topology(node_query, port_query) ==
  IF node_query.kind # "ok" THEN Err(<<"pw-dump Node", node_query.kind>>)
  ELSE IF port_query.kind # "ok" THEN Err(<<"pw-dump Port", port_query.kind>>)
  ELSE Ok([nodes_by_name |-> NodesByName(node_query.entries, 1, EmptyMap),
           ports_by_node |-> PortsByNode(port_query.entries, 1, EmptyMap)])

\* ------------------------------------------------- autolink_send_sources
\* AutoLinkSummary::default()
DefaultSummary == [links_created |-> 0, issues |-> <<>>]

\* The issues: the message and the names it is formatted with.
SourceNotFound(source_node_name) == <<"Source not found in PipeWire", source_node_name>>

SendNodeNotFound(send_node_name) == <<"Send node not found", send_node_name>>

NoOutputPorts(source_node_name) == <<"Source has no output audio ports", source_node_name>>

NoInputPorts(send_node_name) == <<"Send has no input audio ports", send_node_name>>

NoCompatiblePorts(send_node_name) == <<"No compatible ports found", send_node_name>>

LinkFailed(source_node_name, source_port, send_node_name, send_port, e) ==
  <<"link", NodePort(source_node_name, source_port),
    NodePort(send_node_name, send_port), e>>

\* Variant: only disabled sends are left out.
to_link_enabled_only(send) == send.enabled

\* The filter of sends_to_link.
to_link(send) == send.enabled /\ trim(send.target_object) # <<>>

\* Variant: the send is left out without an issue.
PushIssue_silent(acc, issue) == acc

\* summary.issues.push(issue)
PushIssue(acc, issue) == [acc EXCEPT !.issues = Append(@, issue)]

\* Variant: every port of the source node is taken.
OutputPorts_all(ports_by_node, node_id) ==
  IF node_id \in DOMAIN ports_by_node THEN ports_by_node[node_id] ELSE <<>>

\* The output ports of a node in the snapshot, none if it has no entry.
OutputPorts(ports_by_node, node_id) ==
  IF node_id \in DOMAIN ports_by_node
  THEN SelectSeq(ports_by_node[node_id], LAMBDA port : ~port.is_input)
  ELSE <<>>

\* The input ports of a node in the snapshot, none if it has no entry.
InputPorts(ports_by_node, node_id) ==
  IF node_id \in DOMAIN ports_by_node
  THEN SelectSeq(ports_by_node[node_id], LAMBDA port : port.is_input)
  ELSE <<>>

\* Variant: a link reported as existing is counted as created.
Record_counts_existing(acc, result, issue) ==
  IF result.ok THEN [acc EXCEPT !.links_created = @ + 1]
  ELSE PushIssue(acc, issue)

\* Variant: a failed link creation is dropped.
Record_drops_error(acc, result, issue) ==
  IF result.ok /\ result.value THEN [acc EXCEPT !.links_created = @ + 1]
  ELSE acc

\* The match on the result of ensure_pw_link.
Record(acc, result, issue) ==
  IF result.ok /\ result.value THEN [acc EXCEPT !.links_created = @ + 1]
  ELSE IF result.ok THEN acc
  ELSE PushIssue(acc, issue)

\* Variant: the first failed link creation ends the loop over the links.
AfterLinkResult_stop_on_error(k, n, result) == IF result.ok THEN k + 1 ELSE n + 1

\* The loop over planned_links goes on to the next link whatever the result.
AfterLinkResult(k, n, result) == k + 1

\* The loop over planned_links from its k-th link on: the outcomes it can
\* have, pw-link being run against the link set left by the links before.
RECURSIVE LinkLoop(_, _, _, _, _)
LinkLoop(acc, source_node_name, send_node_name, planned_links_, k) ==
  IF k > Len(planned_links_) THEN {acc}
  ELSE LET source_port == planned_links_[k][1]
           send_port == planned_links_[k][2]
           source == NodePort(source_node_name, source_port)
           target == NodePort(send_node_name, send_port)
       IN UNION {
            LET result == ensure_pw_link(output)
                logged == [acc EXCEPT
                             !.links = output.links,
                             !.calls = Append(@, [source |-> source,
                                                  target |-> target,
                                                  existed |-> <<source, target>> \in acc.links,
                                                  success |-> output.success,
                                                  stderr |-> output.stderr])]
            IN LinkLoop(
                 Record(logged, result,
                        LinkFailed(source_node_name, source_port,
                                   send_node_name, send_port, result.value)),
                 source_node_name, send_node_name, planned_links_,
                 AfterLinkResult(k, Len(planned_links_), result))
            : output \in pw_link(acc.links, source, target)}

\* The loop over sends_to_link from its j-th send on.
RECURSIVE SendLoop(_, _, _, _)
SendLoop(acc, topology, sends_to_link, j) ==
  IF j > Len(sends_to_link) THEN {acc}
  ELSE
    LET send == sends_to_link[j]
        source_node_name == trim(send.target_object)
        send_node_name == trim(send.node_name)
        nodes == topology.nodes_by_name
    IN
    IF source_node_name \notin DOMAIN nodes
    THEN SendLoop(PushIssue(acc, SourceNotFound(source_node_name)),
                  topology, sends_to_link, j + 1)
    ELSE IF send_node_name \notin DOMAIN nodes
    THEN SendLoop(PushIssue(acc, SendNodeNotFound(send_node_name)),
                  topology, sends_to_link, j + 1)
    ELSE
      LET source_ports_ == OutputPorts(topology.ports_by_node, nodes[source_node_name])
          send_ports_ == InputPorts(topology.ports_by_node, nodes[send_node_name])
      IN
      IF source_ports_ = <<>>
      THEN SendLoop(PushIssue(acc, NoOutputPorts(source_node_name)),
                    topology, sends_to_link, j + 1)
      ELSE IF send_ports_ = <<>>
      THEN SendLoop(PushIssue(acc, NoInputPorts(send_node_name)),
                    topology, sends_to_link, j + 1)
      ELSE
        LET planned_links_ == plan_autolinks(source_ports_, send_ports_)
        IN IF planned_links_ = <<>>
           THEN SendLoop(PushIssue(acc, NoCompatiblePorts(send_node_name)),
                         topology, sends_to_link, j + 1)
           ELSE UNION {SendLoop(after, topology, sends_to_link, j + 1) :
                  after \in LinkLoop(acc, source_node_name, send_node_name,
                                     planned_links_, 1)}

\* Variant: a failed load is taken as an empty summary.
Propagate_as_summary(error, ls) ==
  [result |-> Ok(DefaultSummary), calls |-> <<>>, links |-> ls]

\* `load_pipewire_topology()?`: the error of the load is the result.
Propagate(error, ls) == [result |-> error, calls |-> <<>>, links |-> ls]

\* autolink_send_sources(cfg) against the link set ls, given what the two
\* queries of the load answer if they are run: the outcomes it can have,
\* each with the pw-link commands it ran and the link set it leaves.
autolink_send_sources(c, ls, node_query, port_query) ==
  LET sends_to_link == SelectSeq(c.sends, to_link)
  IN IF sends_to_link = <<>>
     THEN {[result |-> Ok(DefaultSummary), calls |-> <<>>, links |-> ls]}
     ELSE LET topology == load_pipewire_topology(node_query, port_query)
          IN IF ~topology.ok
             THEN {Propagate(topology, ls)}
             ELSE {[result |-> Ok([links_created |-> acc.links_created,
                                   issues |-> acc.issues]),
                    calls |-> acc.calls,
                    links |-> acc.links] :
                   acc \in SendLoop([links_created |-> 0, issues |-> <<>>,
                                     calls |-> <<>>, links |-> ls],
                                    topology.value, sends_to_link, 1)}

\* The configured sends: enabled or not, bound to nothing, to blanks, to
\* the source node m or to an unknown node x, and carried by the send node
\* s or t; the stored names may carry blanks.
TargetObjects == {<<>>, <<32>>, <<32, 109>>, <<120>>}

NodeNames == {<<115>>, <<116, 32>>}

AutoSends ==
  {sends \in BoundedSeqs([id : SendIds, enabled : BOOLEAN,
                          target_object : TargetObjects, node_name : NodeNames],
                         MaxSends) :
     \A i \in 1..Len(sends) : sends[i].id = i}

NodeEntry(id, node_name) == [id |-> id, node_name |-> node_name]

PortEntry(node_id, port_name, direction, channel) ==
  [node_id |-> Some(node_id), port_name |-> Some(port_name),
   direction |-> direction, channel |-> channel]

\* What `pw-dump Node` lists: m and s or not, t, and two entries the
\* loader cannot use.
NodeDumps ==
  {(IF has_m THEN <<NodeEntry(Some(1), Some(<<109>>))>> ELSE <<>>)
   \o <<NodeEntry(Some(9), None), NodeEntry(None, Some(<<120>>))>>
   \o (IF has_s THEN <<NodeEntry(Some(2), Some(<<115>>))>> ELSE <<>>)
   \o <<NodeEntry(Some(3), Some(<<32, 116>>))>> :
   has_m \in BOOLEAN, has_s \in BOOLEAN}

\* What `pw-dump Port` lists: for m no port, one input port, a stereo
\* pair or one mono output; for s no port, one input or two of which
\* i9 has gone from the server since; for t one input and a port of
\* unknown direction.
PortDumps ==
  {m_ports \o s_ports
   \o <<PortEntry(3, <<105, 49, 32>>, "input", None),
        PortEntry(3, <<105, 57>>, "sideways", None)>> :
   m_ports \in {<<>>,
                <<PortEntry(1, <<111, 50>>, "input", None)>>,
                <<PortEntry(1, <<111, 49>>, "output", Some(FL)),
                  PortEntry(1, <<111, 50>>, "output", Some(<<70, 82, 32>>))>>,
                <<PortEntry(1, <<111, 49>>, "output", Some(MONO))>>},
   s_ports \in {<<>>,
                <<PortEntry(2, <<105, 49>>, "input", Some(FL))>>,
                <<PortEntry(2, <<105, 57>>, "input", Some(FL)),
                  PortEntry(2, <<105, 49>>, "input", Some(FR))>>}}

\* A link made by someone else.
ForeignLink == <<NodePort(<<120>>, <<111, 49>>), NodePort(<<115>>, <<105, 49>>)>>

\* The answers of the two queries that the pass got: "not run" for a
\* query the pass did not reach.
Asked(c, node_query, port_query) ==
  IF SelectSeq(c.sends, to_link) = <<>> THEN <<"not run", "not run">>
  ELSE IF node_query.kind # "ok" THEN <<node_query.kind, "not run">>
  ELSE <<node_query.kind, port_query.kind>>

InitAuto ==
  /\ cfg \in [sends : AutoSends, recvs : {<<>>}, host_info_emulation : {FALSE}]
  /\ server \in [nodes : NodeDumps, ports : PortDumps]
  /\ links \in {{}, {ForeignLink}}
  /\ calls = <<>>
  /\ auto = [pc |-> "idle", result |-> Ok(DefaultSummary),
             asked |-> <<"not run", "not run">>, before |-> {}]
  /\ mic = <<>>
  /\ app = <<>>
  /\ source_ports = <<>>
  /\ send_ports = <<>>
  /\ plan_pc = "input"
  /\ planned_links = <<>>
  /\ dir = <<>>
  /\ pass = <<>>
  /\ status = "none"
  /\ repeated = FALSE
  /\ dir0 = <<>>

\* One call of autolink_send_sources(&self.cfg); calls holds the pw-link
\* commands of this call.
Autolink ==
  \E node_query \in Query(server.nodes), port_query \in Query(server.ports) :
    \E o \in autolink_send_sources(cfg, links, node_query, port_query) :
      /\ auto' = [pc |-> "returned", result |-> o.result,
                  asked |-> Asked(cfg, node_query, port_query),
                  before |-> links]
      /\ calls' = o.calls
      /\ links' = o.links
      /\ UNCHANGED <<server, mic, app>>

NextAuto == Autolink /\ UNCHANGED <<fragVars, planVars>>

SpecAuto == InitAuto /\ [][NextAuto]_vars

\* ----------------------------------------------- list_microphone_sources
\* A JSON value that is a string, and one that is not.
Str(s) == [t |-> "str", v |-> s]

NotStr == [t |-> "num", v |-> <<>>]

\* Value::as_str on the value a lookup gave.
as_str(value) ==
  IF value = None \/ value[1].t # "str" THEN None ELSE Some(value[1].v)

\* a.or_else(|| b) along a list of lookups: the first that is present.
RECURSIVE or_else(_)
or_else(lookups) ==
  IF lookups = <<>> THEN None
  ELSE IF Head(lookups) # None THEN Head(lookups)
       ELSE or_else(Tail(lookups))

\* "Audio/Source", "Audio/Source/", ".monitor"
AudioSource == <<65, 117, 100, 105, 111, 47, 83, 111, 117, 114, 99, 101>>

AudioSourceSlash == AudioSource \o <<47>>

DotMonitor == <<46, 109, 111, 110, 105, 116, 111, 114>>

is_audio_source_media_class(media_class) ==
  \/ eq_ignore_ascii_case(media_class, AudioSource)
  \/ /\ Len(media_class) >= Len(AudioSourceSlash)
     /\ eq_ignore_ascii_case(SubSeq(media_class, 1, Len(AudioSourceSlash)), AudioSourceSlash)

\* Variant: no name is taken for a monitor.
is_monitor_source_never(node_name) == FALSE

is_monitor_source(node_name) == contains(node_name, DotMonitor)

\* str::to_lowercase; the strings of the model are ASCII.
to_lowercase(str) == str_to_ascii_lowercase(str)

\* Variant: the descriptions are compared as written.
DeviceLess_as_written(a, b) ==
  \/ StrLess(a.description, b.description)
  \/ a.description = b.description /\ StrLess(a.node_name, b.node_name)

\* The comparison of sort_by: lower-cased descriptions, then node names.
DeviceLess(a, b) ==
  LET a_key == to_lowercase(a.description)
      b_key == to_lowercase(b.description)
  IN \/ StrLess(a_key, b_key)
     \/ a_key = b_key /\ StrLess(a.node_name, b.node_name)

\* One step of a stable insertion: x goes before the first device that
\* is greater.
RECURSIVE InsertDevice(_, _)
InsertDevice(x, sorted) ==
  IF sorted = <<>> THEN <<x>>
  ELSE IF DeviceLess(x, Head(sorted)) THEN <<x>> \o sorted
       ELSE <<Head(sorted)>> \o InsertDevice(x, Tail(sorted))

\* devices.sort_by(..): a stable sort.
RECURSIVE SortDevices(_, _, _)
SortDevices(devices, k, sorted) ==
  IF k > Len(devices) THEN sorted
  ELSE SortDevices(devices, k + 1, InsertDevice(devices[k], sorted))

\* Variant: every entry is taken for a pw-dump entry.
is_pw_dump_entry_always(entry) == TRUE

\* entry.get("info").is_some()
is_pw_dump_entry(entry) == entry.info # None

\* The props of an entry: info.props if it is an object, else properties
\* if it is an object.
EntryProps(entry) ==
  IF entry.info # None /\ entry.info[1].props # None THEN entry.info[1].props
  ELSE entry.properties

\* The loop of extract_audio_sources from the i-th entry on.
RECURSIVE ExtractLoop(_, _, _)
ExtractLoop(entries, i, devices) ==
  IF i > Len(entries) THEN devices
  ELSE
    LET entry == entries[i]
        props == EntryProps(entry)
    IN
    IF props = None THEN ExtractLoop(entries, i + 1, devices)
    ELSE
      LET p == props[1]
          class == as_str(p.media_class)
          media_class == IF class = None THEN <<>> ELSE class[1]
          name == as_str(or_else(<<p.node_name, p.source_name, p.name, entry.name>>))
          node_name == IF name = None THEN <<>> ELSE trim(name[1])
          desc == as_str(or_else(<<p.node_description, p.device_description,
                                   p.description, entry.description>>))
          description == IF desc = None \/ trim(desc[1]) = <<>>
                         THEN node_name
                         ELSE trim(desc[1])
      IN
      IF is_pw_dump_entry(entry) /\ ~is_audio_source_media_class(media_class)
      THEN ExtractLoop(entries, i + 1, devices)
      ELSE IF node_name = <<>> \/ is_monitor_source(node_name)
      THEN ExtractLoop(entries, i + 1, devices)
      ELSE IF \E k \in 1..Len(devices) : devices[k].node_name = node_name
      THEN ExtractLoop(entries, i + 1, devices)
      ELSE ExtractLoop(entries, i + 1,
             Append(devices, [node_name |-> node_name, description |-> description]))

extract_audio_sources(entries) == SortDevices(ExtractLoop(entries, 1, <<>>), 1, <<>>)

\* The loop of merge_audio_sources over the chained lists.
RECURSIVE MergeLoop(_, _, _)
MergeLoop(chained, i, merged) ==
  IF i > Len(chained) THEN merged
  ELSE IF \E k \in 1..Len(merged) : merged[k].node_name = chained[i].node_name
       THEN MergeLoop(chained, i + 1, merged)
       ELSE MergeLoop(chained, i + 1, Append(merged, chained[i]))

\* Variant: the second list is read before the first.
chain_second_first(first, second) == second \o first

\* first.into_iter().chain(second)
chain(first, second) == first \o second

merge_audio_sources(first, second) ==
  SortDevices(MergeLoop(chain(first, second), 1, <<>>), 1, <<>>)

\* list_microphone_sources_pw_dump and list_microphone_sources_pactl on
\* the outcome of the command each runs.
list_microphone_sources_pw_dump(query) ==
  IF query.kind # "ok" THEN Err(<<"pw-dump Node", query.kind>>)
  ELSE Ok(extract_audio_sources(query.entries))

list_microphone_sources_pactl(query) ==
  IF query.kind # "ok" THEN Err(<<"pactl -f json list sources", query.kind>>)
  ELSE Ok(extract_audio_sources(query.entries))

\* Variant: one failed backend fails the listing.
OneBackend_fails(devices, error) == Err(error)

\* The arms with one failed backend: the list of the other is the result.
OneBackend(devices, error) == Ok(devices)

list_microphone_sources(pw_dump_result, pactl_result) ==
  IF pw_dump_result.ok /\ pactl_result.ok
  THEN Ok(merge_audio_sources(pw_dump_result.value, pactl_result.value))
  ELSE IF pw_dump_result.ok THEN OneBackend(pw_dump_result.value, pactl_result.value)
  ELSE IF pactl_result.ok THEN OneBackend(pactl_result.value, pw_dump_result.value)
  ELSE Err(<<"Could not list PipeWire sources", pw_dump_result.value, pactl_result.value>>)

\* The entries the backends list. Props with no key, and an entry with
\* no key.
NoProps ==
  [media_class |-> None, node_name |-> None, source_name |-> None, name |-> None,
   node_description |-> None, device_description |-> None, description |-> None]

NoEntry == [info |-> None, properties |-> None, name |-> None, description |-> None]

InfoProps(props) == [NoEntry EXCEPT !.info = Some([props |-> Some(props)])]

\* `pw-dump Node`: the sources b "B", a (blanks around the name, class
\* "audio/source/x"), d "b"; a sink; a monitor; a node whose node.name is
\* not a string; a source whose props are under properties.
PwDumpEntries ==
  {InfoProps([NoProps EXCEPT !.media_class = Some(Str(AudioSource)),
                             !.node_name = Some(Str(<<98>>)),
                             !.node_description = Some(Str(<<66>>))]),
   InfoProps([NoProps EXCEPT !.media_class = Some(Str(str_to_ascii_lowercase(AudioSourceSlash) \o <<120>>)),
                             !.node_name = Some(Str(<<32, 97, 32>>))]),
   InfoProps([NoProps EXCEPT !.media_class = Some(Str(AudioSource)),
                             !.node_name = Some(Str(<<100>>)),
                             !.node_description = Some(Str(<<98>>))]),
   InfoProps([NoProps EXCEPT !.media_class = Some(Str(<<65, 117, 100, 105, 111, 47, 83, 105, 110, 107>>)),
                             !.node_name = Some(Str(<<99>>))]),
   InfoProps([NoProps EXCEPT !.media_class = Some(Str(AudioSource)),
                             !.node_name = Some(Str(<<97>> \o DotMonitor))]),
   InfoProps([NoProps EXCEPT !.media_class = Some(Str(AudioSource)),
                             !.node_name = Some(NotStr),
                             !.source_name = Some(Str(<<101>>))]),
   [NoEntry EXCEPT !.info = Some([props |-> None]),
                   !.properties = Some([NoProps EXCEPT !.media_class = Some(Str(AudioSource)),
                                                       !.name = Some(Str(<<104>>)),
                                                       !.device_description = Some(Str(<<65>>))])]}

\* `pactl -f json list sources`: b "A2" named by the entry; a "Z"; f
\* without a description, of class "Audio/Sink"; an entry without
\* properties; a monitor; d with a blank description.
PactlEntries ==
  {[NoEntry EXCEPT !.properties = Some([NoProps EXCEPT !.device_description = Some(Str(<<65, 50>>))]),
                   !.name = Some(Str(<<98>>))],
   [NoEntry EXCEPT !.properties = Some([NoProps EXCEPT !.node_name = Some(Str(<<97>>)),
                                                       !.description = Some(Str(<<90>>))])],
   [NoEntry EXCEPT !.properties = Some([NoProps EXCEPT !.source_name = Some(Str(<<102>>)),
                                                       !.media_class = Some(Str(<<65, 117, 100, 105, 111, 47, 83, 105, 110, 107>>))])],
   [NoEntry EXCEPT !.name = Some(Str(<<103>>))],
   [NoEntry EXCEPT !.properties = Some([NoProps EXCEPT !.name = Some(Str(<<98>> \o DotMonitor))])],
   [NoEntry EXCEPT !.properties = Some([NoProps EXCEPT !.node_name = Some(Str(<<100>>)),
                                                       !.description = Some(Str(<<32, 32>>))]),
                   !.description = Some(Str(<<100, 100>>))]}

InitMic ==
  /\ server \in [nodes : BoundedSeqs(PwDumpEntries, MaxEntries),
                 sources : BoundedSeqs(PactlEntries, MaxEntries)]
  /\ mic = [pc |-> "idle", pw_dump_result |-> Ok(<<>>), pactl_result |-> Ok(<<>>),
            result |-> Ok(<<>>)]
  /\ auto = <<>>
  /\ app = <<>>
  /\ links = {}
  /\ calls = <<>>
  /\ cfg = [sends |-> <<>>, recvs |-> <<>>, host_info_emulation |-> FALSE]
  /\ source_ports = <<>>
  /\ send_ports = <<>>
  /\ plan_pc = "input"
  /\ planned_links = <<>>
  /\ dir = <<>>
  /\ pass = <<>>
  /\ status = "none"
  /\ repeated = FALSE
  /\ dir0 = <<>>

\* One call of list_microphone_sources(): both backends are run, then
\* their results are matched.
ListMicrophoneSources ==
  /\ mic.pc = "idle"
  /\ \E pw_dump \in Query(server.nodes), pactl \in Query(server.sources) :
       LET pw_dump_result == list_microphone_sources_pw_dump(pw_dump)
           pactl_result == list_microphone_sources_pactl(pactl)
       IN mic' = [pc |-> "returned",
                  pw_dump_result |-> pw_dump_result,
                  pactl_result |-> pactl_result,
                  result |-> list_microphone_sources(pw_dump_result, pactl_result)]
  /\ UNCHANGED <<server, auto, app>>

NextMic == ListMicrophoneSources /\ UNCHANGED <<fragVars, planVars, linkVars>>

SpecMic == InitMic /\ [][NextMic]_vars

\* ------------------------------------------------ App::save, App::apply
\* App::save: system::save_app_config ends with io, "ok" or the error of
\* the step that failed (a failed fs::write leaves a truncated file); the
\* status line gets a text and, for an error, the error it was made from.
save(self, c, io) ==
  [self EXCEPT !.status = IF io = "ok" THEN <<"Config saved.">> ELSE <<"Save error", io>>,
               !.config_file = CASE io = "ok" -> Some(c)
                                 [] io = "err:create_dir_all" -> @
                                 [] io = "err:write" -> <<"truncated">>,
               !.saved = io]

\* The closure of App::apply after its call of save (the result of which
\* is not looked at): the fragment pass, then the restart when one was
\* asked for; and the match on the closure's result.
ApplyStatus(pass_result, restart, restart_result) ==
  LET result == IF pass_result # "ok" THEN pass_result
                ELSE IF restart /\ restart_result # "ok" THEN restart_result
                ELSE "ok"
  IN IF result = "ok"
     THEN IF restart THEN <<"Fragments applied + pipewire restarted.">>
          ELSE <<"Fragments applied.">>
     ELSE <<"Apply error", result>>

\* The application some time after start-up on a machine that has no
\* drop-in file yet: any declared list, saved or not.
InitApp ==
  /\ cfg \in Configs
  /\ dir = [n \in DirNames |-> Absent]
  /\ pass = [p \in Passes |-> Idle]
  /\ status = "none"
  /\ repeated = FALSE
  /\ dir0 = dir
  /\ app \in {[status |-> <<"Ready.">>, config_file |-> f, saved |-> "none",
               handler |-> "none"] : f \in {None, Some(cfg)}}
  /\ source_ports = <<>>
  /\ send_ports = <<>>
  /\ plan_pc = "input"
  /\ planned_links = <<>>
  /\ links = {}
  /\ calls = <<>>
  /\ server = <<>>
  /\ auto = <<>>
  /\ mic = <<>>

\* The "Save" button.
SaveClicked ==
  /\ \E io \in {"ok", "err:create_dir_all", "err:write"} :
       app' = [save(app, cfg, io) EXCEPT !.handler = "save"]
  /\ UNCHANGED <<fragVars, server, auto, mic>>

\* The "Apply fragments" and "Apply + restart" buttons: App::apply(restart).
ApplyClicked(restart) ==
  /\ \E io \in {"ok", "err:create_dir_all", "err:write"},
        restart_result \in {"ok", "err:Could not restart pipewire via systemctl --user"},
        o \in apply_pipewire_fragments(cfg, dir, TRUE) :
       /\ app' = [save(app, cfg, io) EXCEPT
                    !.status = ApplyStatus(o[1], restart, restart_result),
                    !.handler = "apply"]
       /\ status' = o[1]
       /\ dir' = o[2]
  /\ repeated' = (status = "ok")
  /\ UNCHANGED <<cfg, pass, dir0, server, auto, mic>>

NextApp ==
  \/ SaveClicked /\ UNCHANGED <<planVars, linkVars>>
  \/ \E restart \in BOOLEAN : ApplyClicked(restart) /\ UNCHANGED <<planVars, linkVars>>

SpecApp == InitApp /\ [][NextApp]_vars

\* ------------------------------------------------- properties: fragments
\* Names of the fragments of the enabled declared entities.
EnabledFragments(c) ==
  {<<"99-rustban-send-", c.sends[i].id, ".conf">> : i \in {j \in 1..Len(c.sends) : c.sends[j].enabled}}
  \cup
  {<<"99-rustban-recv-", c.recvs[i].id, ".conf">> : i \in {j \in 1..Len(c.recvs) : c.recvs[j].enabled}}

\* The fragments of all declared entities in processing order (the sends in
\* list order, then the recvs in list order), each with the entry a pass
\* leaves at its name once it has processed it.
DeclaredOrder(c) ==
  [i \in 1..Len(c.sends) |->
     [name |-> <<"99-rustban-send-", c.sends[i].id, ".conf">>,
      processed |-> IF c.sends[i].enabled
                    THEN File(<<"send", c.sends[i], c.host_info_emulation>>) ELSE Absent]]
  \o
  [i \in 1..Len(c.recvs) |->
     [name |-> <<"99-rustban-recv-", c.recvs[i].id, ".conf">>,
      processed |-> IF c.recvs[i].enabled
                    THEN File(<<"recv", c.recvs[i], c.host_info_emulation>>) ELSE Absent]]

\* Files of the directory whose name follows the naming convention.
FragmentFiles(d) == {n \in FragmentNames : d[n].kind = "file"}

\* C1: after edits followed by a successful apply_pipewire_fragments, from
\* any initial directory, the files named by the engine's convention are
\* exactly the fragments of the enabled declared entities.
C1_ExactlyEnabledFragments ==
  status = "ok" => FragmentFiles(dir) = EnabledFragments(cfg)

\* A successful pass with an enabled send, a disabled send and an undeclared
\* recv: one fragment remains.
C1_Witness ==
  /\ status = "ok"
  /\ Len(cfg.sends) = 2
  /\ cfg.sends[1].enabled
  /\ ~cfg.sends[2].enabled
  /\ cfg.recvs = <<>>
  /\ FragmentFiles(dir) = {<<"99-rustban-send-", cfg.sends[1].id, ".conf">>}

\* C2: no step changes a directory entry whose name does not follow the
\* naming convention, whether the pass succeeds or fails.
C2_OtherFilesUntouched ==
  [][\A n \in OtherNames : dir'[n] = dir[n]]_vars

\* A failed pass after which custom.conf and the .bak file are still there.
C2_Witness ==
  /\ status \in Errors
  /\ cfg.sends # <<>>
  /\ dir[CustomConf] = File(<<"old">>)
  /\ dir[BackupName] = File(<<"old">>)

\* C3 (as claimed): a pass that fails on a fragment write or delete leaves
\* the directory as it was before the call.
C3_AllOrNothing ==
  [][status' \in {"err:write", "err:remove_file"} => dir' = dir]_vars

\* d2 is d after a pass over c that stopped at its first failing write or
\* delete: the fragments before the failing one are processed, the failing
\* one is as before (or truncated by the failed write), everything after it
\* is as before; or every declared fragment is processed and the sweep
\* stopped at a stray fragment, having removed some others.
StoppedAtFailure(c, d, d2) ==
  LET order == DeclaredOrder(c)
      declared == {order[j].name : j \in 1..Len(order)}
  IN /\ \A n \in OtherNames : d2[n] = d[n]
     /\ \/ \E k \in 1..Len(order) :
             /\ \A j \in 1..(k - 1) : d2[order[j].name] = order[j].processed
             /\ d2[order[k].name] \in {d[order[k].name], File(<<"truncated">>)}
             /\ \A n \in FragmentNames \ {order[j].name : j \in 1..k} : d2[n] = d[n]
        \/ /\ \A j \in 1..Len(order) : d2[order[j].name] = order[j].processed
           /\ \A n \in FragmentNames \ declared : d2[n] \in {d[n], Absent}
           /\ \E n \in FragmentNames \ declared : d[n].kind = "file" /\ d2[n] = d[n]

\* C3 (amended): a pass that fails on a fragment write or delete stops
\* there; what it did before the failure stays done, nothing after it is
\* touched.
C3_StopsAtFailure ==
  [][status' \in {"err:write", "err:remove_file"} => StoppedAtFailure(cfg, dir, dir')]_vars

\* A failed pass that has written the first send's fragment and not the
\* second's.
C3_Witness ==
  /\ status = "err:write"
  /\ Len(cfg.sends) = 2
  /\ cfg.sends[1].enabled
  /\ cfg.sends[2].enabled
  /\ dir[<<"99-rustban-send-", cfg.sends[1].id, ".conf">>]
       = File(<<"send", cfg.sends[1], cfg.host_info_emulation>>)
  /\ dir[<<"99-rustban-send-", cfg.sends[2].id, ".conf">>] = Absent

\* C4: a successful pass directly after a successful pass, with no edit in
\* between, leaves every entry of the directory as it is.
C4_Idempotent ==
  [][(status = "ok" /\ status' = "ok") => dir' = dir]_vars

\* A second successful pass in a row, over two fragments it rewrote.
C4_Witness ==
  /\ repeated
  /\ status = "ok"
  /\ Cardinality(FragmentFiles(dir)) = 2
  /\ dir[CustomConf].kind = "file"

\* ----------------------------------------------- properties: concurrency
BothFinished == \A p \in Passes : pass[p].pc \in Results

\* What one pass, run alone from the initial directory, can end with.
SinglePass == apply_pipewire_fragments(cfg, dir0, FALSE)

SinglePassSucceeds == \A o \in SinglePass : o[1] = "ok"

\* C5 (as claimed): under every interleaving both passes return success and
\* the directory ends as a single pass would leave it.
C5_BothSucceed ==
  (BothFinished /\ SinglePassSucceeds)
    => (\A p \in Passes : pass[p].pc = "ok") /\ <<"ok", dir>> \in SinglePass

\* C5 (amended): under every interleaving at least one of the two passes
\* returns success and the directory ends as a single pass would leave it;
\* the other pass may fail on a remove_file of a fragment the first removed.
C5_OneSucceeds ==
  (BothFinished /\ SinglePassSucceeds)
    => (\E p \in Passes : pass[p].pc = "ok") /\ <<"ok", dir>> \in SinglePass

\* Pass 1 lost the race for a fragment to remove; pass 2 completed, and a
\* fragment of an enabled entity is in place.
C5_Witness ==
  /\ pass[1].pc = "err:remove_file"
  /\ pass[2].pc = "ok"
  /\ SinglePassSucceeds
  /\ \E i \in 1..Len(cfg.sends) :
       /\ cfg.sends[i].enabled
       /\ dir[<<"99-rustban-send-", cfg.sends[i].id, ".conf">>].kind = "file"

\* --------------------------------------------------- properties: planner
\* The tags that are equal up to ASCII case, by enumeration.
TagClasses == {{FL, FL_lower}, {FR}, {MONO, MONO_lower}, {AUX}}

SameTag(a, b) == \E class \in TagClasses : a \in class /\ b \in class

\* Indices of the source ports whose tag equals `tag` up to case.
SourcesTagged(tag) ==
  {i \in 1..Len(source_ports) :
     source_ports[i].channel # None /\ SameTag(source_ports[i].channel[1], tag)}

Least(S) == CHOOSE i \in S : \A j \in S : i <= j

PlannedSet == {planned_links[i] : i \in 1..Len(planned_links)}

DistinctSendNames ==
  \A i, j \in 1..Len(send_ports) : send_ports[i].port_name = send_ports[j].port_name => i = j

\* The plan links target port t from source port number i; when the target
\* port names are distinct, from no other source port name.
LinkedFrom(t, i) ==
  /\ <<source_ports[i].port_name, t.port_name>> \in PlannedSet
  /\ DistinctSendNames =>
       \A l \in PlannedSet : l[2] = t.port_name => l[1] = source_ports[i].port_name

Stereo(tag) == tag \in {FL, FL_lower, FR}

\* C6: a tagged target port with a source port of the same tag (up to
\* case) is linked from the first such source port, not from another.
C6_ExactChannelMatch ==
  plan_pc = "planned" =>
    \A j \in 1..Len(send_ports) :
      LET t == send_ports[j]
      IN (t.channel # None /\ SourcesTagged(t.channel[1]) # {})
           => LinkedFrom(t, Least(SourcesTagged(t.channel[1])))

\* Target FL with sources fl, FL (in this order): linked from the first.
C6_Witness ==
  /\ plan_pc = "planned"
  /\ Len(source_ports) = 2
  /\ source_ports[1].channel = Some(FL_lower)
  /\ source_ports[2].channel = Some(FL)
  /\ source_ports[1].port_name # source_ports[2].port_name
  /\ Len(send_ports) = 1
  /\ send_ports[1].channel = Some(FL)
  /\ planned_links = <<(<<source_ports[1].port_name, send_ports[1].port_name>>)>>

\* C7: a target port tagged FL or FR without a source of the same tag is
\* linked from the first MONO source port when there is one; targets
\* {FL, FR} over a single MONO source give two links from that port.
C7_MonoFallback ==
  plan_pc = "planned" =>
    /\ \A j \in 1..Len(send_ports) :
         LET t == send_ports[j]
         IN (/\ t.channel # None
             /\ Stereo(t.channel[1])
             /\ SourcesTagged(t.channel[1]) = {}
             /\ SourcesTagged(MONO) # {})
              => LinkedFrom(t, Least(SourcesTagged(MONO)))
    /\ (/\ Len(source_ports) = 1
        /\ SourcesTagged(MONO) = {1}
        /\ Len(send_ports) = 2
        /\ DistinctSendNames
        /\ {send_ports[1].channel, send_ports[2].channel} = {Some(FL), Some(FR)})
         => /\ Len(planned_links) = 2
            /\ \A l \in PlannedSet : l[1] = source_ports[1].port_name

\* Target FR, sources AUX then mono: linked from the second port.
C7_Witness ==
  /\ plan_pc = "planned"
  /\ Len(source_ports) = 2
  /\ source_ports[1].channel = Some(AUX)
  /\ source_ports[2].channel = Some(MONO_lower)
  /\ source_ports[1].port_name # source_ports[2].port_name
  /\ Len(send_ports) = 1
  /\ send_ports[1].channel = Some(FR)
  /\ planned_links = <<(<<source_ports[2].port_name, send_ports[1].port_name>>)>>

\* C8: a target port to which neither rule applies (no tag; or a tag without
\* a source of the same tag and, for FL and FR, without a MONO source) is
\* linked from the first source port.
C8_FirstAvailable ==
  plan_pc = "planned" =>
    \A j \in 1..Len(send_ports) :
      LET t == send_ports[j]
      IN (/\ source_ports # <<>>
          /\ \/ t.channel = None
             \/ /\ SourcesTagged(t.channel[1]) = {}
                /\ ~(Stereo(t.channel[1]) /\ SourcesTagged(MONO) # {}))
           => LinkedFrom(t, 1)

\* Target AUX, sources FL then MONO: linked from the first port.
C8_Witness ==
  /\ plan_pc = "planned"
  /\ Len(source_ports) = 2
  /\ source_ports[1].channel = Some(FL)
  /\ source_ports[2].channel = Some(MONO)
  /\ source_ports[1].port_name # source_ports[2].port_name
  /\ Len(send_ports) = 1
  /\ send_ports[1].channel = Some(AUX)
  /\ planned_links = <<(<<source_ports[1].port_name, send_ports[1].port_name>>)>>

\* C9: the returned list is strictly ascending in the lexicographic order
\* of the pairs, hence free of duplicates.
C9_SortedNoDuplicates ==
  plan_pc = "planned" =>
    /\ \A i \in 1..(Len(planned_links) - 1) : PairLess(planned_links[i], planned_links[i + 1])
    /\ \A i, j \in 1..Len(planned_links) : planned_links[i] = planned_links[j] => i = j

\* Two target ports of the same name picked the same source port: one link;
\* and a plan whose order differs from the target ports' order.
C9_Witness ==
  /\ plan_pc = "planned"
  /\ Len(send_ports) = 2
  /\ source_ports # <<>>
  /\ \/ /\ send_ports[1].port_name = send_ports[2].port_name
        /\ Len(planned_links) = 1
     \/ /\ Len(planned_links) = 2
        /\ planned_links[1][2] = send_ports[2].port_name
        /\ planned_links[2][2] = send_ports[1].port_name
        /\ send_ports[1].port_name # send_ports[2].port_name

\* ------------------------------------------------ properties: link applier
\* C10: two calls in a row on the same pair of existing ports, the link
\* being absent before the first: Created (Ok(true)), then AlreadyExists
\* (Ok(false)), whichever known phrase the server reports; never an error.
C10_CreatedThenAlreadyExists ==
  \A i \in 1..(Len(calls) - 1) :
    (/\ calls[i + 1].source = calls[i].source
     /\ calls[i + 1].target = calls[i].target
     /\ calls[i].source \in ServerPorts
     /\ calls[i].target \in ServerPorts
     /\ ~calls[i].existed)
      => /\ calls[i].result = [ok |-> TRUE, value |-> TRUE]
         /\ calls[i + 1].result = [ok |-> TRUE, value |-> FALSE]

\* The second of two calls on the same pair found the link in place.
C10_Witness ==
  /\ Len(calls) = 2
  /\ calls[1].source = calls[2].source
  /\ calls[1].target = calls[2].target
  /\ ~calls[1].existed
  /\ calls[2].existed
  /\ calls[2].stderr \in ExistsDiagnostics
  /\ ~contains(calls[2].stderr, FileExists)
  /\ calls[2].result.ok
  /\ links = {<<calls[1].source, calls[1].target>>}

\* ------------------------------------------------- properties: autolink
\* The pass has returned.
Returned == auto.pc = "returned"

\* The load of the topology succeeded in the pass.
Loaded == Returned /\ auto.asked = <<"ok", "ok">>

\* The topology the media server lists.
Snapshot ==
  load_pipewire_topology([kind |-> "ok", entries |-> server.nodes],
                         [kind |-> "ok", entries |-> server.ports]).value

\* The send is enabled and bound to a source.
Bound(send) ==
  send.enabled /\ \E i \in 1..Len(send.target_object) : send.target_object[i] \notin WhiteSpace

\* The ports of one direction that the snapshot has for a node name.
SnapshotPorts(node_name, is_input) ==
  LET nodes == Snapshot.nodes_by_name
      ports == Snapshot.ports_by_node
  IN IF node_name \in DOMAIN nodes /\ nodes[node_name] \in DOMAIN ports
     THEN SelectSeq(ports[nodes[node_name]], LAMBDA port : port.is_input = is_input)
     ELSE <<>>

\* The send can be linked: both its nodes are in the snapshot, its source
\* has an output port and its own node an input port.
Resolves(send) ==
  /\ trim(send.target_object) \in DOMAIN Snapshot.nodes_by_name
  /\ trim(send.node_name) \in DOMAIN Snapshot.nodes_by_name
  /\ SnapshotPorts(trim(send.target_object), FALSE) # <<>>
  /\ SnapshotPorts(trim(send.node_name), TRUE) # <<>>

\* The pw-link commands planned for a send, in the order of the plan.
PlannedCommands(send) ==
  LET plan == plan_autolinks(SnapshotPorts(trim(send.target_object), FALSE),
                             SnapshotPorts(trim(send.node_name), TRUE))
  IN [k \in 1..Len(plan) |->
        <<NodePort(trim(send.target_object), plan[k][1]),
          NodePort(trim(send.node_name), plan[k][2])>>]

\* The commands planned for the sends from the i-th on.
RECURSIVE CommandsFrom(_, _)
CommandsFrom(sends, i) ==
  IF i > Len(sends) THEN <<>>
  ELSE (IF Bound(sends[i]) /\ Resolves(sends[i]) THEN PlannedCommands(sends[i]) ELSE <<>>)
       \o CommandsFrom(sends, i + 1)

\* The commands run by the pass.
Commands == [k \in 1..Len(calls) |-> <<calls[k].source, calls[k].target>>]

\* The k-th command of the pass failed and did not report an existing link.
HardFailure(k) == ~calls[k].success /\ calls[k].stderr \notin ExistsDiagnostics

\* The issues of the returned summary that report a failed link creation.
LinkIssues ==
  {i \in 1..Len(auto.result.value.issues) : auto.result.value.issues[i][1] = "link"}

\* C11: once the topology has loaded, the pass returns a summary and has
\* run every planned command of every send that can be linked, in order,
\* whatever commands failed; the failed link creations and the link
\* issues are as many.
C11_NeverAborts ==
  Loaded =>
    /\ auto.result.ok
    /\ Commands = CommandsFrom(cfg.sends, 1)
    /\ Cardinality(LinkIssues) = Cardinality({k \in 1..Len(calls) : HardFailure(k)})

\* A first command failed; the next of the same send and the one of the
\* next send were run and succeeded.
C11_Witness ==
  /\ Loaded
  /\ Len(calls) = 3
  /\ HardFailure(1)
  /\ calls[2].success /\ calls[2].target = NodePort(<<115>>, <<105, 49>>)
  /\ calls[3].success /\ calls[3].target = NodePort(<<116>>, <<105, 49>>)
  /\ Cardinality(LinkIssues) = 1

\* The sends of the configuration that are bound but cannot be linked.
Unresolved == {i \in 1..Len(cfg.sends) : Bound(cfg.sends[i]) /\ ~Resolves(cfg.sends[i])}

\* The subsequence of seq at the indices in keep.
RECURSIVE Keep(_, _, _)
Keep(seq, keep, i) ==
  IF i > Len(seq) THEN <<>>
  ELSE (IF i \in keep THEN <<seq[i]>> ELSE <<>>) \o Keep(seq, keep, i + 1)

\* The issues of the returned summary that do not report a failed link.
SendIssues ==
  Keep(auto.result.value.issues, (1..Len(auto.result.value.issues)) \ LinkIssues, 1)

\* The configuration without the sends that cannot be linked.
WithoutUnresolved ==
  [cfg EXCEPT !.sends = Keep(cfg.sends, (1..Len(cfg.sends)) \ Unresolved, 1)]

\* C12: each bound send that cannot be linked has exactly one issue, which
\* names its source or its node, and no command; without these issues the
\* pass is one that the configuration without these sends can have.
C12_UnresolvedSendIsOneIssue ==
  Loaded =>
    LET unresolved == Keep(cfg.sends, Unresolved, 1)
    IN /\ auto.result.ok
       /\ Len(SendIssues) = Len(unresolved)
       /\ \A i \in 1..Len(unresolved) :
            SendIssues[i][2] \in {trim(unresolved[i].target_object),
                                  trim(unresolved[i].node_name)}
       /\ \E o \in autolink_send_sources(WithoutUnresolved, auto.before,
                                         [kind |-> "ok", entries |-> server.nodes],
                                         [kind |-> "ok", entries |-> server.ports]) :
            /\ o.result.ok
            /\ o.result.value.links_created = auto.result.value.links_created
            /\ o.result.value.issues = Keep(auto.result.value.issues, LinkIssues, 1)
            /\ o.calls = calls
            /\ o.links = links

\* The first send has no node in the snapshot and the second was linked.
C12_Witness ==
  /\ Loaded
  /\ Len(cfg.sends) = 2
  /\ Unresolved = {1}
  /\ trim(cfg.sends[1].node_name) \notin DOMAIN Snapshot.nodes_by_name
  /\ Len(auto.result.value.issues) = 1
  /\ auto.result.value.links_created = Len(calls)
  /\ calls # <<>>

\* The configuration with only its sends that are enabled and bound.
OnlyBound ==
  [cfg EXCEPT !.sends =
     Keep(cfg.sends, {i \in 1..Len(cfg.sends) : Bound(cfg.sends[i])}, 1)]

\* C13: a send that is disabled or bound to nothing but blanks has no
\* command and no issue: a pass that returned a summary returned one, with
\* the commands and the links, that the configuration without these sends
\* can have; with no other send nothing is asked of the media server.
C13_UnboundSendIsSkipped ==
  (Returned /\ auto.result.ok) =>
    /\ \E o \in autolink_send_sources(OnlyBound, auto.before,
                                      [kind |-> "ok", entries |-> server.nodes],
                                      [kind |-> "ok", entries |-> server.ports]) :
         /\ o.result = auto.result
         /\ o.calls = calls
         /\ o.links = links
    /\ OnlyBound.sends = <<>> =>
         /\ auto.result.value = DefaultSummary
         /\ calls = <<>>
         /\ auto.asked = <<"not run", "not run">>

\* An enabled send bound to a blank and a disabled send bound to a source
\* were passed over; a pass with a blank-bound send made links.
C13_Witness ==
  /\ Returned
  /\ Len(cfg.sends) = 2
  /\ cfg.sends[1].enabled
  /\ cfg.sends[1].target_object = <<32>>
  /\ Bound(cfg.sends[2])
  /\ auto.result.ok
  /\ auto.result.value.issues = <<>>
  /\ auto.result.value.links_created > 0
  /\ \A k \in 1..Len(calls) :
       calls[k].target = NodePort(trim(cfg.sends[2].node_name), <<105, 49>>)

\* C14: a pass that follows a pass which returned a summary without
\* issues, on the same configuration and with the same answers of the
\* media server's listing, returns the empty summary and leaves the link
\* set as it was.
C14_SecondPassIsSilent ==
  [][(/\ Returned
      /\ auto.result.ok
      /\ auto.result.value.issues = <<>>
      /\ cfg' = cfg /\ server' = server
      /\ auto'.asked = auto.asked)
     => (/\ auto'.result = Ok(DefaultSummary)
         /\ links' = links)]_vars

\* A pass found every link it asked for already made: it ran commands,
\* each reported the link as existing, and it returned the empty summary.
C14_Witness ==
  /\ Returned
  /\ Len(calls) >= 2
  /\ \A k \in 1..Len(calls) : calls[k].existed /\ ~calls[k].success
  /\ auto.result = Ok(DefaultSummary)
  /\ links = auto.before
  /\ links \ {ForeignLink} # {}

\* The commands of the pass that failed without reporting an existing link.
HardFailures == {k \in 1..Len(calls) : HardFailure(k)}

\* C15: links_created is the number of commands of the pass that exited
\* successfully, which is the number of links the pass added; the link
\* issues are, in order, one for each command that failed otherwise than
\* by reporting an existing link, and name its two node:port ends.
C15_CountsAndIssues ==
  (Returned /\ auto.result.ok) =>
    LET failed == Keep(calls, HardFailures, 1)
        issues == Keep(auto.result.value.issues, LinkIssues, 1)
    IN /\ auto.result.value.links_created
            = Cardinality({k \in 1..Len(calls) : calls[k].success})
       /\ auto.result.value.links_created = Cardinality(links \ auto.before)
       /\ Len(issues) = Len(failed)
       /\ \A i \in 1..Len(failed) :
            /\ issues[i][2] = failed[i].source
            /\ issues[i][3] = failed[i].target

\* One pass ran a command that made a link, one that found it made and
\* one that failed for good.
C15_Witness ==
  /\ Returned
  /\ auto.result.ok
  /\ \E k \in 1..Len(calls) : calls[k].success
  /\ \E k \in 1..Len(calls) : ~calls[k].success /\ calls[k].stderr \in ExistsDiagnostics
  /\ HardFailures # {}
  /\ auto.result.value.links_created = 1
  /\ Len(auto.result.value.issues) = Cardinality(HardFailures)

\* The names of the ports of one direction listed for a node name.
SnapshotPortNames(node_name, is_input) ==
  {SnapshotPorts(node_name, is_input)[k].port_name :
     k \in 1..Len(SnapshotPorts(node_name, is_input))}

\* The link goes from an output port of the source of an enabled, bound
\* send to an input port of the node of that send.
RouteOfSend(link) ==
  \E i \in 1..Len(cfg.sends) :
    /\ Bound(cfg.sends[i])
    /\ \E p \in SnapshotPortNames(trim(cfg.sends[i].target_object), FALSE),
          q \in SnapshotPortNames(trim(cfg.sends[i].node_name), TRUE) :
         link = <<NodePort(trim(cfg.sends[i].target_object), p),
                  NodePort(trim(cfg.sends[i].node_name), q)>>

\* C16: a pass removes no link, and every link it adds goes from an output
\* port of the source of a configured send to an input port of the node
\* of that send.
C16_LinksOnlyGrow ==
  [][/\ links \subseteq links'
     /\ \A link \in links' \ links : RouteOfSend(link)]_vars

\* A pass added links next to one made by someone else, which is kept.
C16_Witness ==
  /\ Returned
  /\ ForeignLink \in auto.before
  /\ ForeignLink \in links
  /\ Cardinality(links \ auto.before) >= 2
  /\ \A link \in links \ auto.before : RouteOfSend(link)

\* C17: when a send is to be linked the two queries are run, and when the
\* node query or the port query fails the pass returns the error of that
\* query, has run no command and has left the link set alone.
C17_LoadFailureIsReturned ==
  Returned =>
    /\ (\E i \in 1..Len(cfg.sends) : Bound(cfg.sends[i])) => auto.asked[1] # "not run"
    /\ auto.asked[1] \in QueryFailures =>
         /\ auto.result = [ok |-> FALSE, value |-> <<"pw-dump Node", auto.asked[1]>>]
         /\ calls = <<>>
         /\ links = auto.before
    /\ auto.asked[2] \in QueryFailures =>
         /\ auto.result = [ok |-> FALSE, value |-> <<"pw-dump Port", auto.asked[2]>>]
         /\ calls = <<>>
         /\ links = auto.before

\* The port query gave no JSON to a pass that had a send it could have
\* linked.
C17_Witness ==
  /\ Returned
  /\ auto.asked = <<"ok", "unparseable">>
  /\ ~auto.result.ok
  /\ \E i \in 1..Len(cfg.sends) : Bound(cfg.sends[i]) /\ Resolves(cfg.sends[i])
  /\ calls = <<>>
  /\ links = {}

\* ------------------------------------------- properties: source directory
\* list_microphone_sources has returned.
Listed == mic.pc = "returned"

\* The logical names of a list of devices.
Names(devices) == {devices[k].node_name : k \in 1..Len(devices)}

\* The descriptions a list of devices has for a logical name.
Descriptions(devices, node_name) ==
  {devices[k].description : k \in {j \in 1..Len(devices) : devices[j].node_name = node_name}}

\* C18: with both backends successful the returned list has no logical
\* name twice, has exactly the names of the two extracted lists, and
\* gives a name of the first list the description the first list gives it.
C18_MergedDirectory ==
  (Listed /\ mic.pw_dump_result.ok /\ mic.pactl_result.ok) =>
    LET pw == mic.pw_dump_result.value
        pa == mic.pactl_result.value
        merged == mic.result.value
    IN /\ mic.result.ok
       /\ \A i, j \in 1..Len(merged) : merged[i].node_name = merged[j].node_name => i = j
       /\ Names(merged) = Names(pw) \cup Names(pa)
       /\ \A n \in Names(merged) :
            Descriptions(merged, n)
              = IF n \in Names(pw) THEN Descriptions(pw, n) ELSE Descriptions(pa, n)

\* b is listed by both backends under two descriptions and f by the
\* second only; the merged list has b once, as the first describes it.
C18_Witness ==
  /\ Listed
  /\ mic.pw_dump_result.ok /\ mic.pactl_result.ok
  /\ Descriptions(mic.pw_dump_result.value, <<98>>) = {<<66>>}
  /\ Descriptions(mic.pactl_result.value, <<98>>) = {<<65, 50>>}
  /\ <<102>> \in Names(mic.pactl_result.value) \ Names(mic.pw_dump_result.value)
  /\ Descriptions(mic.result.value, <<98>>) = {<<66>>}
  /\ Len(mic.result.value) = 2

\* The list is in ascending order of lower-cased description, devices of
\* equal lower-cased description being in ascending order of name.
InDirectoryOrder(devices) ==
  \A i \in 1..(Len(devices) - 1) :
    LET a_key == str_to_ascii_lowercase(devices[i].description)
        b_key == str_to_ascii_lowercase(devices[i + 1].description)
    IN \/ StrLess(a_key, b_key)
       \/ /\ a_key = b_key
          /\ \/ StrLess(devices[i].node_name, devices[i + 1].node_name)
             \/ devices[i].node_name = devices[i + 1].node_name

\* C19: every list that list_microphone_sources returns, merged or taken
\* from the one backend that succeeded, is in directory order.
C19_DirectoryOrder == (Listed /\ mic.result.ok) => InDirectoryOrder(mic.result.value)

\* Only the first backend succeeded; its list has "a" before "B", and
\* two devices that differ in the case of the description in name order.
C19_Witness ==
  /\ Listed
  /\ mic.pw_dump_result.ok /\ ~mic.pactl_result.ok
  /\ mic.result.ok
  /\ Len(mic.result.value) = 2
  /\ mic.result.value[1].description = <<97>>
  /\ mic.result.value[2].description = <<66>>

\* C20: the listing fails exactly when both backends fail; with one
\* failed backend the list of the other is returned, and with both
\* failed the error carries the error of each.
C20_FailsIffBothFail ==
  Listed =>
    /\ mic.result.ok <=> (mic.pw_dump_result.ok \/ mic.pactl_result.ok)
    /\ (mic.pw_dump_result.ok /\ ~mic.pactl_result.ok) =>
         mic.result = [ok |-> TRUE, value |-> mic.pw_dump_result.value]
    /\ (~mic.pw_dump_result.ok /\ mic.pactl_result.ok) =>
         mic.result = [ok |-> TRUE, value |-> mic.pactl_result.value]
    /\ (~mic.pw_dump_result.ok /\ ~mic.pactl_result.ok) =>
         /\ mic.result.value[2] = mic.pw_dump_result.value
         /\ mic.result.value[3] = mic.pactl_result.value

\* Both backends failed, each in its own way, though each had sources to
\* list.
C20_Witness ==
  /\ Listed
  /\ mic.pw_dump_result = [ok |-> FALSE, value |-> <<"pw-dump Node", "exit_nonzero">>]
  /\ mic.pactl_result = [ok |-> FALSE, value |-> <<"pactl -f json list sources", "unparseable">>]
  /\ ~mic.result.ok
  /\ Len(server.nodes) = MaxEntries
  /\ Len(server.sources) = MaxEntries

\* The string ends with the suffix.
HasSuffix(str, suffix) ==
  /\ Len(str) >= Len(suffix)
  /\ SubSeq(str, Len(str) - Len(suffix) + 1, Len(str)) = suffix

\* The lists the call produced: the list of each backend that succeeded
\* and the returned list.
ProducedLists ==
  (IF mic.pw_dump_result.ok THEN {mic.pw_dump_result.value} ELSE {})
  \cup (IF mic.pactl_result.ok THEN {mic.pactl_result.value} ELSE {})
  \cup (IF mic.result.ok THEN {mic.result.value} ELSE {})

\* C21: no list of extract_audio_sources and no list returned by
\* list_microphone_sources has a device whose name ends with ".monitor".
C21_NoMonitor ==
  Listed =>
    \A devices \in ProducedLists : \A n \in Names(devices) : ~HasSuffix(n, DotMonitor)

\* The name that the chain of keys finds for an entry is a monitor name.
NamedAsMonitor(entry) ==
  \E value \in {entry.name}
               \cup (IF EntryProps(entry) = None THEN {}
                     ELSE {EntryProps(entry)[1].node_name, EntryProps(entry)[1].name}) :
    value # None /\ value[1].t = "str" /\ HasSuffix(value[1].v, DotMonitor)

\* Each backend listed a monitor, the first with the class of a source,
\* next to a source that is returned.
C21_Witness ==
  /\ Listed
  /\ \E k \in 1..Len(server.nodes) : NamedAsMonitor(server.nodes[k])
  /\ \E k \in 1..Len(server.sources) : NamedAsMonitor(server.sources[k])
  /\ mic.pw_dump_result.ok /\ mic.pactl_result.ok
  /\ Len(mic.result.value) = 2

\* The media class an entry states in its props, empty if it states none.
ClassOf(entry) ==
  IF EntryProps(entry) = None THEN <<>>
  ELSE LET class == EntryProps(entry)[1].media_class
       IN IF class = None \/ class[1].t # "str" THEN <<>> ELSE class[1].v

\* The class is "Audio/Source" or begins with "Audio/Source/", as written.
IsSourceClassAsWritten(class) ==
  \/ class = AudioSource
  \/ /\ Len(class) >= Len(AudioSourceSlash)
     /\ SubSeq(class, 1, Len(AudioSourceSlash)) = AudioSourceSlash

\* The same, letters of either case being taken for the same letter.
IsSourceClassAnyCase(class) == IsSourceClassAsWritten(
  [i \in 1..Len(class) |->
     IF i <= Len(AudioSourceSlash) /\ to_ascii_lowercase(class[i]) = to_ascii_lowercase(AudioSourceSlash[i])
     THEN AudioSourceSlash[i]
     ELSE class[i]])

\* The strings, trimmed, that the candidate keys of an entry hold.
CandidateNames(entry) ==
  IF EntryProps(entry) = None THEN {}
  ELSE {trim(value[1].v) :
          value \in {v \in {EntryProps(entry)[1].node_name, EntryProps(entry)[1].source_name,
                            EntryProps(entry)[1].name, entry.name} :
                       v # None /\ v[1].t = "str"}}

\* The entry with its stated media class replaced.
WithClass(entry, class) ==
  IF entry.properties = None THEN entry
  ELSE [entry EXCEPT !.properties = Some([entry.properties[1] EXCEPT !.media_class = Some(Str(class))])]

\* Every device of the first backend's list comes from an entry without
\* info or from one whose class is that of a source: as written, or also
\* in another letter case.
KeptOnlyWithClass(any_case) ==
  \A n \in Names(mic.pw_dump_result.value) :
    \E k \in 1..Len(server.nodes) :
      /\ n \in CandidateNames(server.nodes[k])
      /\ \/ server.nodes[k].info = None
         \/ IsSourceClassAsWritten(ClassOf(server.nodes[k]))
         \/ any_case /\ IsSourceClassAnyCase(ClassOf(server.nodes[k]))

\* An entry with info whose class passes the test and whose node.name is
\* a plain name is in the first backend's list.
KeptWithClass ==
  \A k \in 1..Len(server.nodes) :
    LET entry == server.nodes[k]
    IN (/\ entry.info # None
        /\ EntryProps(entry) # None
        /\ IsSourceClassAnyCase(ClassOf(entry))
        /\ EntryProps(entry)[1].node_name # None
        /\ EntryProps(entry)[1].node_name[1].t = "str"
        /\ trim(EntryProps(entry)[1].node_name[1].v) # <<>>
        /\ ~contains(EntryProps(entry)[1].node_name[1].v, DotMonitor))
       => trim(EntryProps(entry)[1].node_name[1].v) \in Names(mic.pw_dump_result.value)

\* The second backend's list is the one its entries give when each entry
\* without info states the class "Audio/Source".
LegacyUnfiltered ==
  mic.pactl_result.value
    = extract_audio_sources(
        [k \in 1..Len(server.sources) |->
           IF server.sources[k].info = None
           THEN WithClass(server.sources[k], AudioSource)
           ELSE server.sources[k]])

\* C22 as stated: an entry with info is kept only if its class is
\* "Audio/Source" or begins with "Audio/Source/".
C22_AsStated ==
  (Listed /\ mic.pw_dump_result.ok) => KeptOnlyWithClass(FALSE)

\* C22: an entry with info is kept only if its class is "Audio/Source" or
\* begins with "Audio/Source/", ASCII letters compared without regard to
\* case, and such an entry with a plain name is kept; the class of an
\* entry without info does not bear on the list.
C22_ClassFilter ==
  /\ (Listed /\ mic.pw_dump_result.ok) =>
       KeptOnlyWithClass(TRUE) /\ KeptWithClass
  /\ (Listed /\ mic.pactl_result.ok) => LegacyUnfiltered

\* The first backend listed a source of class "audio/source/x" and a
\* sink, the second an entry of class "Audio/Sink": the source and the
\* entry of the second are returned, the sink is not.
C22_Witness ==
  /\ Listed
  /\ mic.pw_dump_result.ok /\ mic.pactl_result.ok
  /\ \E k \in 1..Len(server.nodes) :
       /\ ~IsSourceClassAsWritten(ClassOf(server.nodes[k]))
       /\ IsSourceClassAnyCase(ClassOf(server.nodes[k]))
  /\ \E k \in 1..Len(server.nodes) : ~IsSourceClassAnyCase(ClassOf(server.nodes[k]))
  /\ \E k \in 1..Len(server.sources) :
       /\ ClassOf(server.sources[k]) # <<>>
       /\ ~IsSourceClassAnyCase(ClassOf(server.sources[k]))
  /\ Names(mic.result.value) = {<<97>>, <<102>>}
  /\ Names(mic.pw_dump_result.value) = {<<97>>}

\* The candidate keys of the name of an entry, in the order of the chain.
NameCandidates(entry) ==
  <<EntryProps(entry)[1].node_name, EntryProps(entry)[1].source_name,
    EntryProps(entry)[1].name, entry.name>>

\* The key is present and holds a string that is not empty once trimmed.
Populated(value) == value # None /\ value[1].t = "str" /\ trim(value[1].v) # <<>>

\* The trimmed string of the first populated candidate, empty if none is.
RECURSIVE FirstPopulated(_)
FirstPopulated(candidates) ==
  IF candidates = <<>> THEN <<>>
  ELSE IF Populated(Head(candidates)) THEN trim(Head(candidates)[1].v)
       ELSE FirstPopulated(Tail(candidates))

\* The entries of a listing that have props, pass the class filter and
\* whose first populated candidate is not a monitor name.
Nameable(entries) ==
  {k \in 1..Len(entries) :
     /\ EntryProps(entries[k]) # None
     /\ entries[k].info = None \/ IsSourceClassAnyCase(ClassOf(entries[k]))
     /\ ~contains(FirstPopulated(NameCandidates(entries[k])), DotMonitor)}

\* The names of the list extracted from a listing are the first populated
\* candidates of its nameable entries that have one.
NamedByFirstPopulated(entries, devices) ==
  Names(devices)
    = {FirstPopulated(NameCandidates(entries[k])) : k \in Nameable(entries)} \ {<<>>}

\* C23: the logical name of an entry is the string of its first populated
\* candidate key, and the entry is dropped for its name only when no
\* candidate is populated.
C23_FirstPopulatedName ==
  /\ (Listed /\ mic.pw_dump_result.ok) =>
       NamedByFirstPopulated(server.nodes, mic.pw_dump_result.value)
  /\ (Listed /\ mic.pactl_result.ok) =>
       NamedByFirstPopulated(server.sources, mic.pactl_result.value)

\* ------------------------------------------- properties: order of a pass
\* The step is one of pass p and deletes a file.
Deletes(p) ==
  /\ pass'[p] # pass[p]
  /\ \E n \in DOMAIN dir : dir[n].kind = "file" /\ dir'[n].kind = "absent"

\* Pass p has yet to write the fragment of an enabled declared entity.
HasWritesLeft(p) ==
  \E j \in 1..Len(DeclaredOrder(cfg)) :
    /\ DeclaredOrder(cfg)[j].processed # Absent
    /\ j > pass[p].i \/ (j = pass[p].i /\ pass[p].pc = "entity")

\* The fragments of enabled declared entities that were files when the
\* passes began are files.
EnabledFragmentsStay ==
  \A n \in EnabledFragments(cfg) : dir0[n].kind = "file" => dir[n].kind = "file"

\* C24: a pass deletes a file only once it has written every fragment it
\* has to write, and a fragment of an enabled declared entity that was
\* there when the pass began is there after every step.
C24_DeletesAfterWrites ==
  [][/\ \A p \in Passes : Deletes(p) => ~HasWritesLeft(p)
     /\ EnabledFragmentsStay => EnabledFragmentsStay']_vars

\* The names whose entry the step changed.
Touched == {n \in DOMAIN dir : dir'[n] # dir[n]}

\* The step left a truncated file where there was none.
NewlyTruncated == \E n \in Touched : dir'[n] = File(<<"truncated">>)

\* The pass failed at its k-th declared entity: at the write of its
\* fragment if it is enabled, at the removal of its fragment if not.
FailedAtEntity(k) ==
  LET order == DeclaredOrder(cfg)
  IN /\ Touched \subseteq {order[j].name : j \in 1..k}
     /\ IF order[k].processed # Absent
        THEN /\ status' = "err:write"
             /\ dir'[order[k].name] \in {dir[order[k].name], File(<<"truncated">>)}
        ELSE /\ status' = "err:remove_file"
             /\ dir[order[k].name].kind # "absent"
             /\ order[k].name \notin Touched

\* The pass failed in the sweep: it changed no stray fragment but to
\* remove it, and one it did not remove is left.
FailedInSweep ==
  LET order == DeclaredOrder(cfg)
      declared == {order[j].name : j \in 1..Len(order)}
  IN /\ status' = "err:remove_file"
     /\ \A n \in Touched \ declared : n \in FragmentNames /\ dir'[n] = Absent
     /\ \E n \in FragmentNames \ declared : dir'[n].kind = "file"

\* C25: a failed write is returned as the error of the pass, and a pass
\* that returns the error of a write or of a removal has touched nothing
\* past the operation that failed: no fragment of a later entity, and no
\* stray fragment unless it failed in the sweep.
C25_FirstFailureAborts ==
  [][/\ NewlyTruncated => status' = "err:write"
     /\ status' \in {"err:write", "err:remove_file"} =>
          \/ \E k \in 1..Len(DeclaredOrder(cfg)) : FailedAtEntity(k)
          \/ FailedInSweep]_vars

\* The removal of the fragment of the disabled first send failed: the
\* fragment of the enabled second send is not written and a stray
\* fragment is still there.
C25_Witness ==
  /\ status = "err:remove_file"
  /\ Len(cfg.sends) = 2
  /\ ~cfg.sends[1].enabled
  /\ cfg.sends[2].enabled
  /\ dir[<<"99-rustban-send-", cfg.sends[1].id, ".conf">>].kind = "file"
  /\ dir[<<"99-rustban-send-", cfg.sends[2].id, ".conf">>] = Absent
  /\ \E n \in FragmentFiles(dir) : n \notin {DeclaredOrder(cfg)[j].name : j \in 1..2}

\* ------------------------------------------ properties: size of the plan
\* The names of the target ports.
TargetNames == {send_ports[j].port_name : j \in 1..Len(send_ports)}

\* The positions of the plan that feed the target port name t.
LinksTo(t) == {i \in 1..Len(planned_links) : planned_links[i][2] = t}

\* C26 as stated: with a source port, the plan has exactly one link for
\* every distinct target port name.
C26_OneLinkPerTargetName ==
  (plan_pc = "planned" /\ source_ports # <<>>) =>
    \A t \in TargetNames : Cardinality(LinksTo(t)) = 1

\* C26: with a source port, the plan feeds every target port name, from
\* exactly one source port when one target port bears the name and from
\* no more source ports than target ports bear it otherwise; every link
\* goes from a source port name to a target port name, and the plan is
\* not empty when there is a target port.
C26_EveryTargetIsFed ==
  (plan_pc = "planned" /\ source_ports # <<>>) =>
    /\ \A t \in TargetNames :
         /\ Cardinality(LinksTo(t)) >= 1
         /\ Cardinality(LinksTo(t))
              <= Cardinality({j \in 1..Len(send_ports) : send_ports[j].port_name = t})
    /\ \A i \in 1..Len(planned_links) :
         /\ planned_links[i][2] \in TargetNames
         /\ \E k \in 1..Len(source_ports) : planned_links[i][1] = source_ports[k].port_name
    /\ send_ports # <<>> => planned_links # <<>>

\* Two target ports of different names, neither FL nor FR, are both fed
\* by the first of two source ports.
C26_Witness ==
  /\ plan_pc = "planned"
  /\ Len(source_ports) = 2
  /\ source_ports[1].port_name # source_ports[2].port_name
  /\ Len(send_ports) = 2
  /\ DistinctSendNames
  /\ Len(planned_links) = 2
  /\ \A i \in 1..2 : planned_links[i][1] = source_ports[1].port_name

\* No pass of autolink_send_sources reports that it found no compatible
\* ports.
NoCompatiblePortsUnreachable ==
  (Returned /\ auto.result.ok) =>
    \A i \in 1..Len(auto.result.value.issues) :
      auto.result.value.issues[i][1] # "No compatible ports found"

\* ---------------------------------------------------------- properties: App
\* The status line shows an error.
ShowsError == app.status[1] \in {"Save error", "Apply error"}

\* The last handler run was App::apply and its save step failed.
ApplySaveFailed == app.handler = "apply" /\ app.saved # "ok"

\* C27: when Apply (with or without restart) has run and its save step
\* failed, the status shown reports an error, never a success status such
\* as "Fragments applied.".
C27_SaveFailureIsReported == ApplySaveFailed => ShowsError

====
